---- MODULE Spec2Model ----
(***************************************************************************)
(* The per-user virtual filesystem layer of the file-hosting service:      *)
(* path resolution into a tenant sandbox (fileStorage.resolvePath), the    *)
(* directory-tree and content operations on the shared disk, and the disk  *)
(* quota enforced by the request handlers of the API layer.                *)
(*                                                                         *)
(* A path string is a sequence of characters; a location on disk is a      *)
(* sequence of segments counted from the filesystem root, each segment     *)
(* being a sequence of characters.  Names that the program never inspects  *)
(* character by character ("uploads", a tenant id, the working directory)  *)
(* are one-character segments.                                             *)
(***************************************************************************)
EXTENDS Integers, Sequences, FiniteSets, TLC

VARIABLES
    fs,     \* the disk: location -> node, for every existing file and directory
    raw,    \* the raw sub-path being handed to resolvePath (SpecResolve)
    res,    \* what the last resolvePath call returned or threw (SpecResolve)
    last,   \* the last request handled and its response (Spec)
    rn,     \* the rename being executed step by step (SpecRename)
    call,   \* the last call of a storage function and what it returned (SpecTree)
    batch   \* the writes of a tenant that are in flight together (SpecBatch)

vars == <<fs, raw, res, last, rn, call, batch>>

\* Longest raw sub-path, in characters / percent-escapes, given to resolvePath.
MaxRawLen == 4

\* Most writes of one tenant in flight together.
MaxBatch == 2

\* Tenant ids are the users' ids (random UUIDs, database.createUser).
Tenants == {"u1", "u2"}

-----------------------------------------------------------------------------
(* Path strings                                                            *)

Seg(name) == <<name>>

DotDot == <<".", ".">>

\* The process working directory, against which "./uploads" is resolved.
Cwd == <<Seg("srv")>>

\* const STORAGE_DIR = "./uploads"
STORAGE_DIR == <<Seg("uploads")>>

\* One element of a raw path: a literal character, a percent-escape of a
\* character, or a "%" that starts no valid escape.
RawTokens == {"x", ".", "/", "\\", "%", "%2e", "%2f", "%5c"}

DecodeToken(t) ==
    CASE t = "%2e" -> "."
      [] t = "%2f" -> "/"
      [] t = "%5c" -> "\\"
      [] OTHER -> t

\* decodeURIComponent: one pass of percent-decoding; throws URIError on a "%"
\* that is not followed by two hex digits.
decodeURIComponent(s) ==
    IF \E i \in 1..Len(s) : s[i] = "%"
    THEN [ok |-> FALSE, chars |-> <<>>]
    ELSE [ok |-> TRUE, chars |-> [i \in 1..Len(s) |-> DecodeToken(s[i])]]

\* .replace(/\\/g, "/")
ReplaceBackslashes(s) == [i \in 1..Len(s) |-> IF s[i] = "\\" THEN "/" ELSE s[i]]

RECURSIVE CollapseSlashes(_)
\* .replace(/\/+/g, "/")
CollapseSlashes(s) ==
    IF Len(s) < 2 THEN s
    ELSE IF s[1] = "/" /\ s[2] = "/" THEN CollapseSlashes(Tail(s))
    ELSE <<s[1]>> \o CollapseSlashes(Tail(s))

\* .replace(/^\//, "")
StripLeadingSlash(s) == IF Len(s) > 0 /\ s[1] = "/" THEN Tail(s) ELSE s

NormalizeSubPath(s) == StripLeadingSlash(CollapseSlashes(ReplaceBackslashes(s)))

RECURSIVE SplitAcc(_, _, _)
SplitAcc(s, cur, acc) ==
    IF s = <<>> THEN Append(acc, cur)
    ELSE IF Head(s) = "/" THEN SplitAcc(Tail(s), <<>>, Append(acc, cur))
    ELSE SplitAcc(Tail(s), Append(cur, Head(s)), acc)

\* The segments of a path string, split at "/".
Split(s) == SplitAcc(s, <<>>, <<>>)

RECURSIVE NormalizeSegs(_, _)
\* path.normalize on a relative path: "" and "." segments vanish, ".." removes
\* the segment before it, or stays when there is none to remove.
NormalizeSegs(segs, acc) ==
    IF segs = <<>> THEN acc
    ELSE LET s == Head(segs) IN
         IF s = <<>> \/ s = <<".">> THEN NormalizeSegs(Tail(segs), acc)
         ELSE IF s = DotDot
              THEN IF acc # <<>> /\ acc[Len(acc)] # DotDot
                   THEN NormalizeSegs(Tail(segs), SubSeq(acc, 1, Len(acc) - 1))
                   ELSE NormalizeSegs(Tail(segs), Append(acc, DotDot))
              ELSE NormalizeSegs(Tail(segs), Append(acc, s))

\* path.join(dir, sub): the normalized concatenation.
join(dir, sub) == NormalizeSegs(dir \o Split(sub), <<>>)

RECURSIVE ResolveFrom(_, _)
ResolveFrom(abs, segs) ==
    IF segs = <<>> THEN abs
    ELSE IF Head(segs) = DotDot
         THEN ResolveFrom(IF abs = <<>> THEN abs ELSE SubSeq(abs, 1, Len(abs) - 1),
                          Tail(segs))
         ELSE ResolveFrom(Append(abs, Head(segs)), Tail(segs))

\* path.resolve: the location a normalized relative path denotes, from the
\* working directory; ".." at the filesystem root stays at the root.
Resolve(rel) == ResolveFrom(Cwd, rel)

RECURSIVE CommonLen(_, _)
CommonLen(a, b) ==
    IF a = <<>> \/ b = <<>> \/ Head(a) # Head(b) THEN 0
    ELSE 1 + CommonLen(Tail(a), Tail(b))

RECURSIVE JoinSegs(_)
JoinSegs(segs) ==
    IF segs = <<>> THEN <<>>
    ELSE IF Len(segs) = 1 THEN segs[1]
    ELSE segs[1] \o <<"/">> \o JoinSegs(Tail(segs))

\* path.relative(from, to), as a string.
relative(from, to) ==
    LET a == Resolve(from)
        b == Resolve(to)
        k == CommonLen(a, b)
    IN  JoinSegs([i \in 1..(Len(a) - k) |-> DotDot] \o SubSeq(b, k + 1, Len(b)))

\* String.prototype.startsWith
StartsWith(s, pre) == Len(s) >= Len(pre) /\ SubSeq(s, 1, Len(pre)) = pre

\* String.prototype.includes
Includes(s, sub) ==
    \E i \in 1..(Len(s) - Len(sub) + 1) : SubSeq(s, i, i + Len(sub) - 1) = sub

IsPrefix(a, b) == Len(a) <= Len(b) /\ SubSeq(b, 1, Len(a)) = a

-----------------------------------------------------------------------------
(* The disk                                                                *)

NoData == [id |-> <<"none">>, len |-> 0]

DirNode == [kind |-> "dir", data |-> NoData]

FileNode(c) == [kind |-> "file", data |-> c]

Exists(f, p) == p \in DOMAIN f

IsDir(f, p) == Exists(f, p) /\ f[p].kind = "dir"

IsFile(f, p) == Exists(f, p) /\ f[p].kind = "file"

Parent(p) == SubSeq(p, 1, Len(p) - 1)

Prefixes(p) == {SubSeq(p, 1, n) : n \in 0..Len(p)}

\* The node at a location with all its descendants, by relative location.
NodeAt(f, p) ==
    [r \in {SubSeq(x, Len(p) + 1, Len(x)) : x \in {y \in DOMAIN f : IsPrefix(p, y)}}
        |-> f[p \o r]]

\* mkdir(path, { recursive: true }): creates every missing directory of the
\* chain; throws when a link of the chain is a file.
mkdirRecursive(f, p) ==
    IF \E q \in Prefixes(p) : IsFile(f, q)
    THEN [ok |-> FALSE, fs |-> f]
    ELSE [ok |-> TRUE,
          fs |-> [q \in DOMAIN f \cup Prefixes(p) |->
                    IF q \in DOMAIN f THEN f[q] ELSE DirNode]]

\* The disk after initializeStorage(): the storage directory exists, no
\* tenant root does.
InitFs == [q \in Prefixes(Cwd \o STORAGE_DIR) |-> DirNode]

\* join(STORAGE_DIR, userId)
UserDir(userId) == join(STORAGE_DIR, Seg(userId))

TenantRoot(userId) == Resolve(UserDir(userId))

\* The tenant root looked up and never created.
ensureUserDirectoryLookupOnly(f, userId) == f

\* ensureUserDirectory: the disk after the tenant root has been looked up
\* and, when absent, created.
ensureUserDirectory(f, userId) ==
    IF Exists(f, TenantRoot(userId)) THEN f
    ELSE mkdirRecursive(f, TenantRoot(userId)).fs

\* The files strictly below a tenant's root, at any depth.
FilesUnder(f, userId) ==
    {q \in DOMAIN f : IsFile(f, q) /\ IsPrefix(TenantRoot(userId), q)}

-----------------------------------------------------------------------------
(* resolvePath                                                             *)

\* The check without its startsWith half.
EscapesUserDirIncludesOnly(relativePath) ==
    Includes(relativePath, <<".", ".", "/">>)

\* The check refusing the empty relative path as well.
EscapesUserDirOrEmpty(relativePath) ==
    \/ relativePath = <<>>
    \/ StartsWith(relativePath, <<".", ".">>)
    \/ Includes(relativePath, <<".", ".", "/">>)

\* relativePath.startsWith("..") || relativePath.includes("../")
EscapesUserDir(relativePath) ==
    StartsWith(relativePath, <<".", ".">>) \/ Includes(relativePath, <<".", ".", "/">>)

\* resolvePath(userId, subPath): the path returned (as the location it
\* denotes), or the error thrown, and the disk it leaves behind.
resolvePath(f, userId, subPath) ==
    LET decoded == decodeURIComponent(subPath) IN
    IF ~decoded.ok
    THEN [ok |-> FALSE, err |-> "URIError", path |-> <<>>, fs |-> f]
    ELSE LET normalizedPath == NormalizeSubPath(decoded.chars)
             f2 == ensureUserDirectory(f, userId)
             fullPath == join(UserDir(userId), normalizedPath)
             relativePath == relative(UserDir(userId), fullPath)
         IN  IF EscapesUserDir(relativePath)
             THEN [ok |-> FALSE, err |-> "InvalidPath", path |-> <<>>, fs |-> f2]
             ELSE [ok |-> TRUE, err |-> "none", path |-> Resolve(fullPath), fs |-> f2]

-----------------------------------------------------------------------------
(* Directory tree, content and quota operations (fileStorage)              *)

\* export const MAX_USER_STORAGE = 10 * 1024 * 1024
MAX_USER_STORAGE == 10 * 1024 * 1024

\* const MAX_SIZE = 10 * 1024 * 1024 (handleFileUpload)
MAX_SIZE == 10 * 1024 * 1024

Half == MAX_USER_STORAGE \div 2

\* A content is known by what it holds (id) and its byte length.
Content(id, len) == [id |-> <<id>>, len |-> len]

\* Buffer.byteLength(content) / file.size
byteLength(c) == c.len

\* isDirectory(path): false, not an error, when the path is missing.
isDirectory(f, p) == IsDir(f, p)

\* ensureDirectory(path): an existing path answers whether it is a
\* directory; a missing one is created with its whole chain.
ensureDirectory(f, p) ==
    IF Exists(f, p) THEN [ok |-> IsDir(f, p), fs |-> f]
    ELSE mkdirRecursive(f, p)

\* mkdir(path) without { recursive: true }: throws when the path exists or
\* its parent is missing.
createDirectoryNotRecursive(f, p) ==
    IF Exists(f, p) \/ ~IsDir(f, Parent(p)) THEN [ok |-> FALSE, fs |-> f]
    ELSE mkdirRecursive(f, p)

\* createDirectory(path)
createDirectory(f, p) == mkdirRecursive(f, p)

\* writeFile / Bun.write on a path: fails when the parent is no directory
\* or the path is a directory.
writeFile(f, p, c) ==
    IF p = <<>> \/ ~IsDir(f, Parent(p)) \/ IsDir(f, p)
    THEN [ok |-> FALSE, fs |-> f]
    ELSE [ok |-> TRUE,
          fs |-> [q \in DOMAIN f \cup {p} |-> IF q = p THEN FileNode(c) ELSE f[q]]]

\* The file written without its parent chain being ensured.
writeFileByPathNoParents(f, p, c) == writeFile(f, p, c)

\* writeFileByPath(path, content): the parent chain is ensured (the answer
\* of ensureDirectory is not looked at), then the file is written.
writeFileByPath(f, p, c) ==
    IF p = <<>> THEN [ok |-> FALSE, fs |-> f]
    ELSE writeFile(ensureDirectory(f, Parent(p)).fs, p, c)

\* The node removed alone, what is below it left behind.
rmNodeOnly(f, p) == [q \in DOMAIN f \ {p} |-> f[q]]

\* rm(path, { recursive: true, force: true })
rmRecursive(f, p) == [q \in {x \in DOMAIN f : ~IsPrefix(p, x)} |-> f[q]]

\* deleteFileOrDirectoryByPath(path)
deleteFileOrDirectoryByPath(f, p) == [ok |-> TRUE, fs |-> rmRecursive(f, p)]

\* readdir(dirPath)
Entries(f, p) == {q \in DOMAIN f : Len(q) = Len(p) + 1 /\ IsPrefix(p, q)}

RECURSIVE SumEntriesFilesOnly(_, _)
\* The loop without the descent into directories.
SumEntriesFilesOnly(f, S) ==
    IF S = {} THEN 0
    ELSE LET q == CHOOSE x \in S : TRUE IN
         (IF IsDir(f, q) THEN 0 ELSE byteLength(f[q].data))
         + SumEntriesFilesOnly(f, S \ {q})

RECURSIVE calculateDirectorySize(_, _)
RECURSIVE SumEntriesChargingDirectories(_, _)
\* The loop with a directory counted by its own stat size as well.
SumEntriesChargingDirectories(f, S) ==
    IF S = {} THEN 0
    ELSE LET q == CHOOSE x \in S : TRUE IN
         (IF IsDir(f, q) THEN 4096 + calculateDirectorySize(f, q)
          ELSE byteLength(f[q].data))
         + SumEntriesChargingDirectories(f, S \ {q})

RECURSIVE SumEntries(_, _)
SumEntries(f, S) ==
    IF S = {} THEN 0
    ELSE LET q == CHOOSE x \in S : TRUE IN
         (IF IsDir(f, q) THEN calculateDirectorySize(f, q) ELSE byteLength(f[q].data))
         + SumEntries(f, S \ {q})

\* calculateDirectorySize(dirPath): the walk over the entries, directories
\* entered recursively, files counted by their stat size.
calculateDirectorySize(f, p) == SumEntries(f, Entries(f, p))

\* calculateUserDiskUsage(userId): the tenant root is ensured first.
calculateUserDiskUsage(f, userId) ==
    LET f2 == ensureUserDirectory(f, userId) IN
    [used |-> calculateDirectorySize(f2, TenantRoot(userId)), fs |-> f2]

\* The checks without the one that the destination does not exist.
renameChecksNoDestination(f, oldPath, newPath) ==
    IF ~Exists(f, oldPath) THEN [ok |-> FALSE, fs |-> f]
    ELSE ensureDirectory(f, Parent(newPath))

\* renameFileOrDirectory, up to the last check: the source must exist, the
\* destination's parent is ensured, the destination must not exist.
renameChecks(f, oldPath, newPath) ==
    IF ~Exists(f, oldPath) THEN [ok |-> FALSE, fs |-> f]
    ELSE LET d == ensureDirectory(f, Parent(newPath)) IN
         IF ~d.ok THEN [ok |-> FALSE, fs |-> d.fs]
         ELSE [ok |-> ~Exists(d.fs, newPath), fs |-> d.fs]

\* What the storage does to a call: "none" lets it complete, "fails" makes
\* it throw having done nothing, "partial" makes a write throw having left
\* a truncated file.
Faults == {"none", "fails", "partial"}

Truncated == Content("truncated", 0)

\* Bun.write(path, data) on a storage that may fail.
bunWrite(f, p, c, fault) ==
    CASE fault = "none" -> writeFile(f, p, c)
      [] fault = "fails" -> [ok |-> FALSE, fs |-> f]
      [] OTHER -> [ok |-> FALSE, fs |-> writeFile(f, p, Truncated).fs]

\* The source removed before the destination is written.
renameCopyAfterRemove(f, oldPath, newPath, fault) ==
    IF ~IsFile(f, oldPath) THEN [ok |-> FALSE, fs |-> f]
    ELSE bunWrite(rmRecursive(f, oldPath), newPath, f[oldPath].data, fault)

\* The copy leaving a destination that exists as it is.
renameCopyKeepExisting(f, oldPath, newPath, fault) ==
    IF ~IsFile(f, oldPath) THEN [ok |-> FALSE, fs |-> f]
    ELSE IF Exists(f, newPath) THEN [ok |-> TRUE, fs |-> f]
    ELSE bunWrite(f, newPath, f[oldPath].data, fault)

\* await Bun.write(newPath, await readFile(oldPath)): readFile throws on a
\* directory.
renameCopy(f, oldPath, newPath, fault) ==
    IF ~IsFile(f, oldPath) THEN [ok |-> FALSE, fs |-> f]
    ELSE bunWrite(f, newPath, f[oldPath].data, fault)

\* await rm(oldPath, { recursive: true })
renameRemove(f, oldPath, fault) ==
    IF fault = "none" THEN [ok |-> TRUE, fs |-> rmRecursive(f, oldPath)]
    ELSE [ok |-> FALSE, fs |-> f]

\* renameFileOrDirectory(oldPath, newPath)
renameFileOrDirectory(f, oldPath, newPath) ==
    LET c == renameChecks(f, oldPath, newPath) IN
    IF ~c.ok THEN c
    ELSE LET w == renameCopy(c.fs, oldPath, newPath, "none") IN
         IF ~w.ok THEN w
         ELSE renameRemove(w.fs, oldPath, "none")


-----------------------------------------------------------------------------
(* Text content, listings and the size walk (fileStorage)                  *)

\* A text is a JavaScript string, a sequence of UTF-16 code units: "x" is an
\* ASCII character, "H" a high surrogate, "L" a low surrogate, "R" the
\* replacement character U+FFFD.  Bytes are written in hexadecimal.
RECURSIVE utf8Encode(_)
\* The "utf-8" encoding of writeFile: a surrogate pair becomes one four-byte
\* sequence, a surrogate without its partner the bytes of U+FFFD.
utf8Encode(text) ==
    IF text = <<>> THEN <<>>
    ELSE IF Head(text) = "x" THEN <<"78">> \o utf8Encode(Tail(text))
    ELSE IF Head(text) = "H" /\ Len(text) >= 2 /\ text[2] = "L"
         THEN <<"f0", "90", "80", "80">> \o utf8Encode(SubSeq(text, 3, Len(text)))
    ELSE <<"ef", "bf", "bd">> \o utf8Encode(Tail(text))

RECURSIVE utf8Decode(_)
\* The "utf-8" decoding of readFile: bytes that are no valid sequence decode
\* to U+FFFD.
utf8Decode(bytes) ==
    IF bytes = <<>> THEN <<>>
    ELSE IF Head(bytes) = "78" THEN <<"x">> \o utf8Decode(Tail(bytes))
    ELSE IF StartsWith(bytes, <<"f0", "90", "80", "80">>)
         THEN <<"H", "L">> \o utf8Decode(SubSeq(bytes, 5, Len(bytes)))
    ELSE IF StartsWith(bytes, <<"ef", "bf", "bd">>)
         THEN <<"R">> \o utf8Decode(SubSeq(bytes, 4, Len(bytes)))
    ELSE <<"R">> \o utf8Decode(Tail(bytes))

\* What writeFile(path, content, "utf-8") puts on disk for a string.
StringData(text) == [id |-> utf8Encode(text), len |-> Len(utf8Encode(text))]

\* The path string of a location, as join() returns it: relative to the
\* working directory.
PathString(p) == JoinSegs(SubSeq(p, Len(Cwd) + 1, Len(p)))

RECURSIVE LastDot(_, _)
LastDot(s, n) == IF n = 0 \/ s[n] = "." THEN n ELSE LastDot(s, n - 1)

\* String.prototype.toLowerCase
toLowerCase(s) == [i \in 1..Len(s) |-> IF s[i] = "PNG" THEN "png" ELSE s[i]]

\* path.split(".").pop()?.toLowerCase() || "": what follows the last "." of
\* the whole path string, the whole string when it holds no ".".
Ext(s) == toLowerCase(SubSeq(s, LastDot(s, Len(s)) + 1, Len(s)))

\* The extensions whose MIME type starts with "image/".
ImageExts == {<<"png">>, <<"jpg">>, <<"jpeg">>, <<"gif">>, <<"svg">>}

\* Every path taken for an image.
isBinaryAlways(pathString) == TRUE

\* mimeType.startsWith("image/")
isBinary(pathString) == Ext(pathString) \in ImageExts

\* readFileByPath(path): null for an image extension and when readFile
\* throws (no file there, or a directory); else the decoded text.
readFileByPath(f, p) ==
    IF isBinary(PathString(p)) \/ ~IsFile(f, p)
    THEN [ok |-> FALSE, content |-> <<>>]
    ELSE [ok |-> TRUE, content |-> utf8Decode(f[p].data.id)]

\* What the storage answers to stat and readdir: the size it reports for a
\* directory, the entries whose stat throws, the order in which readdir
\* lists names.
Env(dirSize, failing, order) ==
    [dirSize |-> dirSize, failing |-> failing, order |-> order]

\* (await stat(entryPath)).size
StatSize(f, q, env) == IF IsDir(f, q) THEN env.dirSize ELSE byteLength(f[q].data)

\* One entry of listDirectory: name and kind from readdir, size from stat,
\* 0 when stat throws.
ListEntry(f, q, env) ==
    [name |-> q[Len(q)], isDirectory |-> IsDir(f, q),
     size |-> IF q \in env.failing THEN 0 ELSE StatSize(f, q, env)]

\* listDirectory(path): no entries for a missing path or a file.
listDirectory(f, p, env) ==
    IF ~IsDir(f, p) THEN {} ELSE {ListEntry(f, q, env) : q \in Entries(f, p)}

\* A storage whose stat never throws.
SoundEnv == Env(0, {}, <<<<"a">>, <<"a", ".", "PNG">>, <<"d">>>>)

\* readdir(dirPath, { withFileTypes: true }), in the order of the storage.
ReadDir(f, p, order) ==
    SelectSeq([i \in 1..Len(order) |-> Append(p, order[i])], LAMBDA q : Exists(f, q))

RECURSIVE calculateDirectorySizeOn(_, _, _)
RECURSIVE WalkEntries(_, _, _, _)
\* The for loop of calculateDirectorySize on a storage whose stat may throw:
\* a throw leaves the loop for the catch block, which returns totalSize as
\* it stands.
WalkEntries(f, entries, env, totalSize) ==
    IF entries = <<>> THEN totalSize
    ELSE LET q == Head(entries) IN
         IF IsDir(f, q)
         THEN WalkEntries(f, Tail(entries), env,
                          totalSize + calculateDirectorySizeOn(f, q, env))
         ELSE IF q \in env.failing THEN totalSize
         ELSE WalkEntries(f, Tail(entries), env, totalSize + StatSize(f, q, env))

\* calculateDirectorySize(dirPath) on such a storage.
calculateDirectorySizeOn(f, p, env) == WalkEntries(f, ReadDir(f, p, env.order), env, 0)

-----------------------------------------------------------------------------
(* Request handlers (api).  Every request modelled carries a valid session *)
(* of the tenant named in its URL.                                         *)

\* No quota check made.
QuotaNeverExceeded(currentUsage, additional) == FALSE

\* The check made on the current usage instead of the projected one.
QuotaExceededCurrentOnly(currentUsage, additional) == currentUsage > MAX_USER_STORAGE

\* The check made on the size of the request alone.
QuotaExceededAdditionOnly(currentUsage, additional) == additional > MAX_USER_STORAGE

\* projectedUsage > MAX_USER_STORAGE
QuotaExceeded(currentUsage, additional) == currentUsage + additional > MAX_USER_STORAGE

Outcome(status, reason, target, f) ==
    [status |-> status, reason |-> reason, target |-> target, fs |-> f]

\* targetPath of an upload: file.name, or pathInput joined to it by one "/".
UploadTargetPath(pathInput, name) ==
    IF pathInput = <<>> THEN name
    ELSE IF pathInput[Len(pathInput)] = "/" THEN pathInput \o name
    ELSE pathInput \o <<"/">> \o name

\* The part of a growing write that follows the quota check, shared by
\* handleFileUpload and handleFileCreate: resolve the path, write the file.
ResolveAndWrite(f, userId, subPath, content, okStatus) ==
    LET r == resolvePath(f, userId, subPath) IN
    IF ~r.ok THEN Outcome(500, r.err, <<>>, r.fs)
    ELSE LET w == writeFileByPath(r.fs, r.path, content) IN
         IF ~w.ok THEN Outcome(500, "write_failed", r.path, w.fs)
         ELSE Outcome(okStatus, "ok", r.path, w.fs)

\* handleFileUpload
handleFileUpload(f, userId, pathInput, name, file) ==
    IF byteLength(file) > MAX_SIZE THEN Outcome(400, "too_large", <<>>, f)
    ELSE LET u == calculateUserDiskUsage(f, userId) IN
         IF QuotaExceeded(u.used, byteLength(file))
         THEN Outcome(400, "quota", <<>>, u.fs)
         ELSE ResolveAndWrite(u.fs, userId, UploadTargetPath(pathInput, name), file, 200)

\* The file written before the quota is looked at.
handleFileCreateWriteFirst(f, userId, path, content) ==
    IF path = <<>> \/ byteLength(content) = 0 THEN Outcome(400, "missing", <<>>, f)
    ELSE LET w == ResolveAndWrite(f, userId, path, content, 201)
             u == calculateUserDiskUsage(w.fs, userId)
         IN  IF w.status = 201 /\ u.used > MAX_USER_STORAGE
             THEN Outcome(400, "quota", <<>>, u.fs)
             ELSE w

\* handleFileCreate
handleFileCreate(f, userId, path, content) ==
    IF path = <<>> \/ byteLength(content) = 0 THEN Outcome(400, "missing", <<>>, f)
    ELSE LET u == calculateUserDiskUsage(f, userId) IN
         IF QuotaExceeded(u.used, byteLength(content))
         THEN Outcome(400, "quota", <<>>, u.fs)
         ELSE ResolveAndWrite(u.fs, userId, path, content, 201)

\* handleCreateDirectory
handleCreateDirectory(f, userId, path) ==
    IF path = <<>> THEN Outcome(400, "missing", <<>>, f)
    ELSE LET r == resolvePath(f, userId, path) IN
         IF ~r.ok THEN Outcome(500, r.err, <<>>, r.fs)
         ELSE LET m == createDirectory(r.fs, r.path) IN
              IF ~m.ok THEN Outcome(500, "mkdir_failed", r.path, m.fs)
              ELSE Outcome(201, "ok", r.path, m.fs)

\* originalSize: fileInfo.size of stat(fullPath), 0 when stat throws.
OriginalSize(f, p) == IF Exists(f, p) THEN byteLength(f[p].data) ELSE 0

\* The check made with >= in both of its comparisons.
UpdateQuotaExceededOffByOne(currentUsage, sizeDifference) ==
    sizeDifference >= 0 /\ currentUsage + sizeDifference >= MAX_USER_STORAGE

\* The quota check of a content update: made only when the size grows, and
\* then on the growth.
UpdateQuotaExceeded(currentUsage, sizeDifference) ==
    sizeDifference > 0 /\ QuotaExceeded(currentUsage, sizeDifference)

\* handleUserFileContentPathUpdate
handleUserFileContentPathUpdate(f, userId, filePath, content) ==
    IF filePath = <<>> \/ byteLength(content) = 0 THEN Outcome(400, "missing", <<>>, f)
    ELSE LET r == resolvePath(f, userId, filePath) IN
         IF ~r.ok THEN Outcome(500, r.err, <<>>, r.fs)
         ELSE IF isDirectory(r.fs, r.path) THEN Outcome(400, "is_directory", r.path, r.fs)
         ELSE LET sizeDifference == byteLength(content) - OriginalSize(r.fs, r.path)
                  u == calculateUserDiskUsage(r.fs, userId)
              IN  IF UpdateQuotaExceeded(u.used, sizeDifference)
                  THEN Outcome(400, "quota", r.path, u.fs)
                  ELSE LET w == writeFileByPath(u.fs, r.path, content) IN
                       IF ~w.ok THEN Outcome(500, "write_failed", r.path, w.fs)
                       ELSE Outcome(200, "ok", r.path, w.fs)

\* handleDeleteFileOrDirectory
handleDeleteFileOrDirectory(f, userId, path) ==
    IF path = <<>> THEN Outcome(400, "missing", <<>>, f)
    ELSE LET r == resolvePath(f, userId, path) IN
         IF ~r.ok THEN Outcome(500, r.err, <<>>, r.fs)
         ELSE IF ~Exists(r.fs, r.path) THEN Outcome(404, "not_found", r.path, r.fs)
         ELSE LET d == deleteFileOrDirectoryByPath(r.fs, r.path) IN
              IF ~d.ok THEN Outcome(500, "delete_failed", r.path, d.fs)
              ELSE Outcome(200, "ok", r.path, d.fs)

\* handleRenameFileOrDirectory
handleRenameFileOrDirectory(f, userId, oldPath, newPath) ==
    IF oldPath = <<>> \/ newPath = <<>> THEN Outcome(400, "missing", <<>>, f)
    ELSE LET ro == resolvePath(f, userId, oldPath) IN
         IF ~ro.ok THEN Outcome(500, ro.err, <<>>, ro.fs)
         ELSE LET rq == resolvePath(ro.fs, userId, newPath) IN
              IF ~rq.ok THEN Outcome(500, rq.err, ro.path, rq.fs)
              ELSE LET m == renameFileOrDirectory(rq.fs, ro.path, rq.path) IN
                   IF ~m.ok THEN Outcome(500, "rename_failed", ro.path, m.fs)
                   ELSE Outcome(200, "ok", ro.path, m.fs)

\* What a reading handler answers: status, reason, the text or bytes of the
\* body, the entries of a listing.
ReadOutcome(status, reason, target, f, body, entries) ==
    [status |-> status, reason |-> reason, target |-> target, fs |-> f,
     body |-> body, entries |-> entries]

\* handleUserFileContentPath
handleUserFileContentPath(f, userId, filePath) ==
    IF filePath = <<>> THEN ReadOutcome(400, "missing", <<>>, f, <<>>, {})
    ELSE LET r == resolvePath(f, userId, filePath) IN
         IF ~r.ok THEN ReadOutcome(500, r.err, <<>>, r.fs, <<>>, {})
         ELSE IF isDirectory(r.fs, r.path)
              THEN ReadOutcome(400, "is_directory", r.path, r.fs, <<>>, {})
         ELSE LET result == readFileByPath(r.fs, r.path) IN
              IF ~result.ok THEN ReadOutcome(404, "unreadable", r.path, r.fs, <<>>, {})
              ELSE ReadOutcome(200, "ok", r.path, r.fs, result.content, {})

\* handleUserFilesDirectory: the listing of the tenant root.
handleUserFilesDirectory(f, userId) ==
    LET r == resolvePath(f, userId, <<>>) IN
    IF ~r.ok THEN ReadOutcome(500, r.err, <<>>, r.fs, <<>>, {})
    ELSE IF isDirectory(r.fs, r.path)
         THEN ReadOutcome(200, "ok", r.path, r.fs, <<>>, listDirectory(r.fs, r.path, SoundEnv))
    ELSE ReadOutcome(404, "not_found", r.path, r.fs, <<>>, {})

\* handleUserFilesSubPath: the listing of a directory below it.
handleUserFilesSubPath(f, userId, subPath) ==
    LET r == resolvePath(f, userId, subPath) IN
    IF ~r.ok THEN ReadOutcome(500, r.err, <<>>, r.fs, <<>>, {})
    ELSE IF isDirectory(r.fs, r.path)
         THEN ReadOutcome(200, "ok", r.path, r.fs, <<>>, listDirectory(r.fs, r.path, SoundEnv))
    ELSE ReadOutcome(404, "not_found", r.path, r.fs, <<>>, {})

\* readBinaryFileByPath(path): null when stat or the read throws (no file
\* there, or a directory); else the bytes.
readBinaryFileByPath(f, p) ==
    IF ~IsFile(f, p) THEN [ok |-> FALSE, data |-> <<>>]
    ELSE [ok |-> TRUE, data |-> f[p].data.id]

\* handleGetDiskUsage
handleGetDiskUsage(f, userId) ==
    LET u == calculateUserDiskUsage(f, userId) IN
    [status |-> 200, reason |-> "ok", target |-> <<>>, fs |-> u.fs, used |-> u.used]

\* handleUserDirectAccess: the user of the URL must exist; a directory is
\* answered by its index.html when it has one that can be read, else by a
\* page listing its entries; a file by its bytes.
handleUserDirectAccess(f, userId, filePath) ==
    IF userId \notin Tenants THEN ReadOutcome(404, "no_user", <<>>, f, <<>>, {})
    ELSE LET r == resolvePath(f, userId, filePath) IN
         IF ~r.ok THEN ReadOutcome(500, r.err, <<>>, r.fs, <<>>, {})
         ELSE LET indexPath == Append(r.path, <<"index", ".", "html">>) IN
              IF isDirectory(r.fs, r.path) /\ ~Exists(r.fs, indexPath)
              THEN ReadOutcome(200, "ok", r.path, r.fs, <<>>,
                               listDirectory(r.fs, r.path, SoundEnv))
              ELSE IF isDirectory(r.fs, r.path) /\ readBinaryFileByPath(r.fs, indexPath).ok
              THEN ReadOutcome(200, "ok", indexPath, r.fs,
                               readBinaryFileByPath(r.fs, indexPath).data, {})
              ELSE LET result == readBinaryFileByPath(r.fs, r.path) IN
                   IF ~result.ok THEN ReadOutcome(404, "not_found", r.path, r.fs, <<>>, {})
                   ELSE ReadOutcome(200, "ok", r.path, r.fs, result.data, {})

-----------------------------------------------------------------------------
(* Sessions (auth) and the checks the handlers make on them                *)

\* The session_id cookie of a request: none, an id no session has, the id
\* of an expired session of u1, of a live session of u1, of one of u2.
Cookies == {"none", "bogus", "sx", "s1", "s2"}

\* findSessionById
findSessionById(sessionId) ==
    CASE sessionId = "s1" -> [found |-> TRUE, userId |-> "u1", expired |-> FALSE]
      [] sessionId = "s2" -> [found |-> TRUE, userId |-> "u2", expired |-> FALSE]
      [] sessionId = "sx" -> [found |-> TRUE, userId |-> "u1", expired |-> TRUE]
      [] OTHER -> [found |-> FALSE, userId |-> "none", expired |-> FALSE]

\* findUserById: the user's id, "none" for null.
findUserById(id) == IF id \in Tenants THEN id ELSE "none"

\* authenticate(req): the user of the request's session, "none" for null.
authenticate(cookie) ==
    IF cookie = "none" THEN "none"
    ELSE LET session == findSessionById(cookie) IN
         IF ~session.found THEN "none"
         ELSE IF session.expired THEN "none"
         ELSE findUserById(session.userId)

\* requireAuth(req): the user, or the 401 response.
requireAuth(cookie) ==
    LET user == authenticate(cookie) IN
    [user |-> user, status |-> IF user = "none" THEN 401 ELSE 0]

\* The comparison left out: every user passes.
OtherUserNever(user, userId) == FALSE

\* authResult.user.id !== userId
OtherUser(user, userId) == user # userId

\* The head of a handler of /api/users/:userId/...: requireAuth, then the
\* user of the session against the user of the URL, then the handler's body.
Authorized(cookie, userId, f, o) ==
    LET authResult == requireAuth(cookie) IN
    IF authResult.status = 401
    THEN ReadOutcome(401, "unauthenticated", <<>>, f, <<>>, {})
    ELSE IF OtherUser(authResult.user, userId)
         THEN ReadOutcome(403, "forbidden", <<>>, f, <<>>, {})
    ELSE o

\* handleUserFileContentPathUpdate from its first line: the file path of
\* the URL is looked at before the session.
UpdateRequest(f, cookie, userId, filePath, content) ==
    IF filePath = <<>> THEN Outcome(400, "missing", <<>>, f)
    ELSE Authorized(cookie, userId, f,
                    handleUserFileContentPathUpdate(f, userId, filePath, content))

\* handleUserFileContentPath from its first line, likewise.
ContentRequest(f, cookie, userId, filePath) ==
    IF filePath = <<>> THEN ReadOutcome(400, "missing", <<>>, f, <<>>, {})
    ELSE Authorized(cookie, userId, f, handleUserFileContentPath(f, userId, filePath))

\* handleDeleteFileOrDirectory from its first line: requireAuth, then the
\* path resolved for the user of the session; the user of the URL is not
\* read.
DeleteRequest(f, cookie, path) ==
    LET authResult == requireAuth(cookie) IN
    IF authResult.status = 401 THEN Outcome(401, "unauthenticated", <<>>, f)
    ELSE handleDeleteFileOrDirectory(f, authResult.user, path)

\* handleGetDiskUsage from its first line: authenticate, then the usage of
\* the user of the session.
UsageRequest(f, cookie) ==
    LET authResult == authenticate(cookie) IN
    IF authResult = "none"
    THEN [status |-> 401, reason |-> "unauthenticated", target |-> <<>>, fs |-> f,
          used |-> 0]
    ELSE handleGetDiskUsage(f, authResult)

NoRes == [ok |-> FALSE, err |-> "pending", path |-> <<>>, userId |-> "none"]

\* The response to a request, with the disk as the request found it.
Response(op, userId, o, sub, sub2, data, before) ==
    [op |-> op, userId |-> userId, status |-> o.status, reason |-> o.reason,
     target |-> o.target, sub |-> sub, sub2 |-> sub2, data |-> data,
     used |-> 0, body |-> <<>>, entries |-> {}, session |-> userId,
     before |-> before]

\* The response to a reading request.
ReadResponse(op, userId, o, sub, before) ==
    [Response(op, userId, o, sub, <<>>, NoData, before)
        EXCEPT !.body = o.body, !.entries = o.entries]

NoRename ==
    [pc |-> "idle", userId |-> "none", old |-> <<>>, new |-> <<>>, orig |-> <<>>]

NoLast ==
    [op |-> "none", userId |-> "none", status |-> 0, reason |-> "none",
     target |-> <<>>, sub |-> <<>>, sub2 |-> <<>>, data |-> NoData,
     used |-> 0, body |-> <<>>, entries |-> {}, session |-> "none",
     before |-> InitFs]

NoOut == [content |-> <<>>, entries |-> {}, size |-> 0]

NoThen == [fn |-> "none", ok |-> FALSE, out |-> NoOut, mid |-> InitFs]

NoCall ==
    [fn |-> "none", userId |-> "none", sub |-> <<>>, path |-> <<>>, text |-> <<>>,
     env |-> SoundEnv, ok |-> FALSE, out |-> NoOut, before |-> InitFs,
     then |-> NoThen]

\* The tenant whose requests are handled, one at a time.
Writers == {"u1"}

\* Raw sub-paths of the requests: none, a, d, d/a, /, and ..%2fa.
RawPaths ==
    {<<>>, <<"a">>, <<"d">>, <<"d", "/", "a">>, <<"/">>, <<".", ".", "%2f", "a">>}

\* Directory fields of an upload form, and the names of uploaded files.
PathInputs == {<<>>, <<"d">>, <<".", ".">>}

FileNames == {<<"a">>}

\* Bodies of the requests: empty, one byte, two of half the ceiling, one a
\* byte more than half, one a byte more than an upload may hold.
Contents ==
    {Content("e", 0), Content("p", 1), Content("p", Half), Content("q", Half),
     Content("p", Half + 1), Content("p", MAX_SIZE + 1)}

Init ==
    /\ fs = InitFs
    /\ raw = <<>>
    /\ res = NoRes
    /\ last = NoLast
    /\ rn = NoRename
    /\ call = NoCall
    /\ batch = {}

\* The caller extends the raw sub-path by one character or escape.
TypeToken ==
    /\ res = NoRes
    /\ Len(raw) < MaxRawLen
    /\ \E t \in RawTokens : raw' = Append(raw, t)
    /\ UNCHANGED <<fs, res, last, rn, call, batch>>

\* resolvePath(userId, raw) is called and returns or throws.
CallResolve ==
    /\ res = NoRes
    /\ \E u \in Tenants :
         LET r == resolvePath(fs, u, raw) IN
         /\ res' = [ok |-> r.ok, err |-> r.err, path |-> r.path, userId |-> u]
         /\ fs' = r.fs
    /\ UNCHANGED <<raw, last, rn, call, batch>>

\* No request is being answered.
Idle == last = NoLast /\ rn = NoRename

\* POST /api/users/:userId/upload
FileUpload ==
    /\ Idle
    /\ \E u \in Writers, pi \in PathInputs, n \in FileNames, c \in Contents :
        LET o == handleFileUpload(fs, u, pi, n, c) IN
        /\ fs' = o.fs
        /\ last' = Response("upload", u, o, UploadTargetPath(pi, n), <<>>, c, fs)
        /\ UNCHANGED <<raw, res, rn, call, batch>>

\* POST /api/users/:userId/files/create
FileCreate ==
    /\ Idle
    /\ \E u \in Writers, p \in RawPaths, c \in Contents :
        LET o == handleFileCreate(fs, u, p, c) IN
        /\ fs' = o.fs
        /\ last' = Response("create", u, o, p, <<>>, c, fs)
        /\ UNCHANGED <<raw, res, rn, call, batch>>

\* POST /api/users/:userId/directory/create
CreateDirectory ==
    /\ Idle
    /\ \E u \in Writers, p \in RawPaths :
        LET o == handleCreateDirectory(fs, u, p) IN
        /\ fs' = o.fs
        /\ last' = Response("mkdir", u, o, p, <<>>, NoData, fs)
        /\ UNCHANGED <<raw, res, rn, call, batch>>

\* PUT /api/users/:userId/content/*
ContentUpdate ==
    /\ Idle
    /\ \E u \in Writers, p \in RawPaths, c \in Contents :
        LET o == handleUserFileContentPathUpdate(fs, u, p, c) IN
        /\ fs' = o.fs
        /\ last' = Response("update", u, o, p, <<>>, c, fs)
        /\ UNCHANGED <<raw, res, rn, call, batch>>

\* POST /api/users/:userId/files/delete
DeleteFileOrDirectory ==
    /\ Idle
    /\ \E u \in Writers, p \in RawPaths :
        LET o == handleDeleteFileOrDirectory(fs, u, p) IN
        /\ fs' = o.fs
        /\ last' = Response("delete", u, o, p, <<>>, NoData, fs)
        /\ UNCHANGED <<raw, res, rn, call, batch>>

\* POST /api/users/:userId/files/rename
RenameFileOrDirectory ==
    /\ Idle
    /\ \E u \in Writers, p \in RawPaths, q \in RawPaths :
        LET o == handleRenameFileOrDirectory(fs, u, p, q) IN
        /\ fs' = o.fs
        /\ last' = Response("rename", u, o, p, q, NoData, fs)
        /\ UNCHANGED <<raw, res, rn, call, batch>>

\* GET /api/storage/usage
GetDiskUsage ==
    /\ Idle
    /\ \E u \in Writers :
        LET o == handleGetDiskUsage(fs, u) IN
        /\ fs' = o.fs
        /\ last' = [Response("usage", u, o, <<>>, <<>>, NoData, fs)
                        EXCEPT !.used = o.used]
        /\ UNCHANGED <<raw, res, rn, call, batch>>

\* The response is returned to the client; the next request can be taken.
ReturnResponse ==
    /\ ~Idle
    /\ last' = NoLast
    /\ UNCHANGED <<fs, raw, res, rn, call, batch>>

Next ==
    \/ ReturnResponse
    \/ FileUpload
    \/ FileCreate
    \/ CreateDirectory
    \/ ContentUpdate
    \/ DeleteFileOrDirectory
    \/ RenameFileOrDirectory
    \/ GetDiskUsage

\* Requests of one tenant, handled one at a time.
Spec == Init /\ [][Next]_vars

-----------------------------------------------------------------------------
(* A rename executed step by step on a storage that may fail, no other     *)
(* request running beside it.                                              *)

\* The rename request arrives: both paths are resolved and the checks of
\* renameFileOrDirectory are made.
RenameStart ==
    /\ Idle
    /\ \E u \in Writers, p \in RawPaths \ {<<>>}, q \in RawPaths \ {<<>>} :
         LET ro == resolvePath(fs, u, p)
             rq == resolvePath(ro.fs, u, q)
         IN  IF ~ro.ok \/ ~rq.ok
             THEN /\ fs' = (IF ro.ok THEN rq.fs ELSE ro.fs)
                  /\ rn' = [pc |-> "failed", userId |-> u, old |-> <<>>,
                            new |-> <<>>, orig |-> <<>>]
             ELSE LET c == renameChecks(rq.fs, ro.path, rq.path) IN
                  /\ fs' = c.fs
                  /\ rn' = [pc |-> IF c.ok THEN "checked" ELSE "failed",
                            userId |-> u, old |-> ro.path, new |-> rq.path,
                            orig |-> NodeAt(rq.fs, ro.path)]
    /\ UNCHANGED <<raw, res, last, call, batch>>

\* await Bun.write(newPath, await readFile(oldPath))
RenameCopyStep ==
    /\ rn.pc = "checked"
    /\ \E fault \in Faults :
         LET w == renameCopy(fs, rn.old, rn.new, fault) IN
         /\ fs' = w.fs
         /\ rn' = [rn EXCEPT !.pc = IF w.ok THEN "copied" ELSE "failed"]
    /\ UNCHANGED <<raw, res, last, call, batch>>

\* await rm(oldPath, { recursive: true })
RenameRemoveStep ==
    /\ rn.pc = "copied"
    /\ \E fault \in Faults \ {"partial"} :
         LET d == renameRemove(fs, rn.old, fault) IN
         /\ fs' = d.fs
         /\ rn' = [rn EXCEPT !.pc = IF d.ok THEN "done" ELSE "failed"]
    /\ UNCHANGED <<raw, res, last, call, batch>>

\* renameFileOrDirectory returns true or false; the handler answers.
RenameReturn ==
    /\ rn.pc \in {"done", "failed"}
    /\ rn' = NoRename
    /\ UNCHANGED <<fs, raw, res, last, call, batch>>

NextRename ==
    \/ ReturnResponse
    \/ FileCreate
    \/ CreateDirectory
    \/ ContentUpdate
    \/ RenameStart
    \/ RenameCopyStep
    \/ RenameRemoveStep
    \/ RenameReturn

SpecRename == Init /\ [][NextRename]_vars

\* Raw sub-paths of the requests that run beside a rename: those of the
\* rename and x.
RacePaths == RawPaths \cup {<<"x">>}

\* Bodies of the file creates that run beside a rename.
RaceContents == {Content("q", Half)}

\* Another request runs while the rename awaits between its last check and
\* its copy: a file create, handled from start to response.
RaceCreate ==
    /\ rn.pc = "checked"
    /\ last = NoLast
    /\ \E u \in Writers, p \in RacePaths, c \in RaceContents :
        LET o == handleFileCreate(fs, u, p, c) IN
        /\ fs' = o.fs
        /\ last' = Response("create", u, o, p, <<>>, c, fs)
    /\ UNCHANGED <<raw, res, rn, call, batch>>

\* Or a second rename, handled from start to response.
RaceRename ==
    /\ rn.pc = "checked"
    /\ last = NoLast
    /\ \E u \in Writers, p \in RacePaths, q \in RacePaths :
        LET o == handleRenameFileOrDirectory(fs, u, p, q) IN
        /\ fs' = o.fs
        /\ last' = Response("rename", u, o, p, q, NoData, fs)
    /\ UNCHANGED <<raw, res, rn, call, batch>>

NextRace ==
    \/ ReturnResponse
    \/ FileCreate
    \/ RenameStart
    \/ RaceCreate
    \/ RaceRename
    \/ RenameCopyStep
    \/ RenameRemoveStep
    \/ RenameReturn

SpecRace == Init /\ [][NextRace]_vars

-----------------------------------------------------------------------------
(* The routes with their session checks: requests of two tenants and of     *)
(* clients without a live session, handled one at a time.                  *)

\* Raw sub-paths: none, a, d/a and ../u1/a.
AuthPaths == {<<>>, <<"a">>, <<"d", "/", "a">>, <<".", ".", "/", "u1", "/", "a">>}

\* Directory fields of an upload form.
AuthPathInputs == {<<>>, <<"d">>}

\* Bodies of the requests.
AuthContents == {Content("p", 1)}

\* The user ids a URL may name: the two tenants and an id no user has.
UrlUsers == Tenants \cup {"u0"}

\* The response with the user the request's session stands for.
AuthResponse(r, cookie) == [r EXCEPT !.session = authenticate(cookie)]

\* POST /api/users/:userId/upload
AuthFileUpload ==
    /\ Idle
    /\ \E cookie \in Cookies, u \in Tenants, pi \in AuthPathInputs, n \in FileNames, c \in AuthContents :
        LET o == Authorized(cookie, u, fs, handleFileUpload(fs, u, pi, n, c)) IN
        /\ fs' = o.fs
        /\ last' = AuthResponse(Response("upload", u, o, UploadTargetPath(pi, n), <<>>, c, fs), cookie)
    /\ UNCHANGED <<raw, res, rn, call, batch>>

\* POST /api/users/:userId/files/create
AuthFileCreate ==
    /\ Idle
    /\ \E cookie \in Cookies, u \in Tenants, p \in AuthPaths, c \in AuthContents :
        LET o == Authorized(cookie, u, fs, handleFileCreate(fs, u, p, c)) IN
        /\ fs' = o.fs
        /\ last' = AuthResponse(Response("create", u, o, p, <<>>, c, fs), cookie)
    /\ UNCHANGED <<raw, res, rn, call, batch>>

\* POST /api/users/:userId/directory/create
AuthCreateDirectory ==
    /\ Idle
    /\ \E cookie \in Cookies, u \in Tenants, p \in AuthPaths :
        LET o == Authorized(cookie, u, fs, handleCreateDirectory(fs, u, p)) IN
        /\ fs' = o.fs
        /\ last' = AuthResponse(Response("mkdir", u, o, p, <<>>, NoData, fs), cookie)
    /\ UNCHANGED <<raw, res, rn, call, batch>>

\* PUT /api/users/:userId/content/*
AuthContentUpdate ==
    /\ Idle
    /\ \E cookie \in Cookies, u \in Tenants, p \in AuthPaths, c \in AuthContents :
        LET o == UpdateRequest(fs, cookie, u, p, c) IN
        /\ fs' = o.fs
        /\ last' = AuthResponse(Response("update", u, o, p, <<>>, c, fs), cookie)
    /\ UNCHANGED <<raw, res, rn, call, batch>>

\* POST /api/users/:userId/files/rename
AuthRename ==
    /\ Idle
    /\ \E cookie \in Cookies, u \in Tenants, p \in AuthPaths, q \in AuthPaths :
        LET o == Authorized(cookie, u, fs, handleRenameFileOrDirectory(fs, u, p, q)) IN
        /\ fs' = o.fs
        /\ last' = AuthResponse(Response("rename", u, o, p, q, NoData, fs), cookie)
    /\ UNCHANGED <<raw, res, rn, call, batch>>

\* POST /api/users/:userId/files/delete
AuthDelete ==
    /\ Idle
    /\ \E cookie \in Cookies, u \in Tenants, p \in AuthPaths :
        LET o == DeleteRequest(fs, cookie, p) IN
        /\ fs' = o.fs
        /\ last' = AuthResponse(Response("delete", u, o, p, <<>>, NoData, fs), cookie)
    /\ UNCHANGED <<raw, res, rn, call, batch>>

\* GET /api/users/:userId/files
AuthFilesDirectory ==
    /\ Idle
    /\ \E cookie \in Cookies, u \in Tenants :
        LET o == Authorized(cookie, u, fs, handleUserFilesDirectory(fs, u)) IN
        /\ fs' = o.fs
        /\ last' = AuthResponse(ReadResponse("list", u, o, <<>>, fs), cookie)
    /\ UNCHANGED <<raw, res, rn, call, batch>>

\* GET /api/users/:userId/files/*
AuthFilesSubPath ==
    /\ Idle
    /\ \E cookie \in Cookies, u \in Tenants, p \in AuthPaths :
        LET o == Authorized(cookie, u, fs, handleUserFilesSubPath(fs, u, p)) IN
        /\ fs' = o.fs
        /\ last' = AuthResponse(ReadResponse("list", u, o, p, fs), cookie)
    /\ UNCHANGED <<raw, res, rn, call, batch>>

\* GET /api/users/:userId/content/*
AuthFileContent ==
    /\ Idle
    /\ \E cookie \in Cookies, u \in Tenants, p \in AuthPaths :
        LET o == ContentRequest(fs, cookie, u, p) IN
        /\ fs' = o.fs
        /\ last' = AuthResponse(ReadResponse("content", u, o, p, fs), cookie)
    /\ UNCHANGED <<raw, res, rn, call, batch>>

\* GET /static/users/:userId/*
AuthDirectAccess ==
    /\ Idle
    /\ \E cookie \in Cookies, u \in UrlUsers, p \in AuthPaths :
        LET o == handleUserDirectAccess(fs, u, p) IN
        /\ fs' = o.fs
        /\ last' = AuthResponse(ReadResponse("direct", u, o, p, fs), cookie)
    /\ UNCHANGED <<raw, res, rn, call, batch>>

\* GET /api/storage/usage
AuthDiskUsage ==
    /\ Idle
    /\ \E cookie \in Cookies :
        LET o == UsageRequest(fs, cookie) IN
        /\ fs' = o.fs
        /\ last' = [AuthResponse(Response("usage", authenticate(cookie), o, <<>>, <<>>,
                                          NoData, fs), cookie)
                        EXCEPT !.used = o.used]
    /\ UNCHANGED <<raw, res, rn, call, batch>>

NextAuth ==
    \/ ReturnResponse
    \/ AuthFileUpload
    \/ AuthFileCreate
    \/ AuthCreateDirectory
    \/ AuthContentUpdate
    \/ AuthRename
    \/ AuthDelete
    \/ AuthFilesDirectory
    \/ AuthFilesSubPath
    \/ AuthFileContent
    \/ AuthDirectAccess
    \/ AuthDiskUsage

SpecAuth == Init /\ [][NextAuth]_vars

NextResolve == TypeToken \/ CallResolve

SpecResolve == Init /\ [][NextResolve]_vars

-----------------------------------------------------------------------------
(* The storage functions called one at a time on paths that resolvePath    *)
(* returned, each call optionally followed by a second one on its result.  *)

\* Names of the entries: a, d and a.PNG.
TreeNames == {<<"a">>, <<"d">>, <<"a", ".", "PNG">>}

\* Raw sub-paths: /, a.PNG, d, d/a, d/d, d/d/a and ../a.
TreePaths ==
    {<<"/">>, <<"a", ".", "PNG">>, <<"d">>, <<"d", "/", "a">>, <<"d", "/", "d">>,
     <<"d", "/", "d", "/", "a">>, <<".", ".", "/", "a">>}

\* Texts written: an ASCII character, a surrogate pair, a high surrogate
\* without its partner.
TreeTexts == {<<"x">>, <<"H", "L">>, <<"H">>}

\* Sizes stat reports for a directory: none on some filesystems, a block on
\* others.
DirStatSizes == {0, 4096}

\* Orders in which readdir lists the names.
ReadDirOrders ==
    {<<<<"a">>, <<"a", ".", "PNG">>, <<"d">>>>, <<<<"d">>, <<"a", ".", "PNG">>, <<"a">>>>}

\* The record of a call: the function, its arguments, what it returned, and
\* the disk as the call found it.
Call(fn, userId, sub, path, text, env, ok, out, before) ==
    [fn |-> fn, userId |-> userId, sub |-> sub, path |-> path, text |-> text,
     env |-> env, ok |-> ok, out |-> out, before |-> before, then |-> NoThen]

\* No call and no request is being answered.
TreeIdle == call = NoCall /\ last = NoLast

\* resolvePath(userId, subPath)
CallResolvePath ==
    /\ TreeIdle
    /\ \E u \in Tenants, p \in TreePaths :
         LET r == resolvePath(fs, u, p) IN
         /\ fs' = r.fs
         /\ call' = Call("resolvePath", u, p, r.path, <<>>, SoundEnv, r.ok, NoOut, fs)
    /\ UNCHANGED <<raw, res, last, rn, batch>>

\* createDirectory(await resolvePath(userId, path))
CallCreateDirectory ==
    /\ TreeIdle
    /\ \E u \in Writers, p \in TreePaths :
         LET r == resolvePath(fs, u, p)
             m == createDirectory(r.fs, r.path)
         IN  /\ r.ok
             /\ fs' = m.fs
             /\ call' = Call("createDirectory", u, p, r.path, <<>>, SoundEnv, m.ok,
                             NoOut, r.fs)
    /\ UNCHANGED <<raw, res, last, rn, batch>>

\* writeFileByPath(await resolvePath(userId, path), content), content a string
CallWriteFileByPath ==
    /\ TreeIdle
    /\ \E u \in Writers, p \in TreePaths, t \in TreeTexts :
         LET r == resolvePath(fs, u, p)
             w == writeFileByPath(r.fs, r.path, StringData(t))
         IN  /\ r.ok
             /\ fs' = w.fs
             /\ call' = Call("writeFileByPath", u, p, r.path, t, SoundEnv, w.ok,
                             NoOut, r.fs)
    /\ UNCHANGED <<raw, res, last, rn, batch>>

\* deleteFileOrDirectoryByPath(await resolvePath(userId, path))
CallDeleteByPath ==
    /\ TreeIdle
    /\ \E u \in Writers, p \in TreePaths :
         LET r == resolvePath(fs, u, p)
             d == deleteFileOrDirectoryByPath(r.fs, r.path)
         IN  /\ r.ok
             /\ fs' = d.fs
             /\ call' = Call("deleteFileOrDirectoryByPath", u, p, r.path, <<>>,
                             SoundEnv, d.ok, NoOut, r.fs)
    /\ UNCHANGED <<raw, res, last, rn, batch>>

\* listDirectory(await resolvePath(userId, path))
CallListDirectory ==
    /\ TreeIdle
    /\ \E u \in Writers, p \in TreePaths, ds \in DirStatSizes :
         LET r == resolvePath(fs, u, p)
             env == Env(ds, {}, SoundEnv.order)
         IN  /\ r.ok
             /\ fs' = r.fs
             /\ call' = Call("listDirectory", u, p, r.path, <<>>, env, TRUE,
                             [NoOut EXCEPT !.entries = listDirectory(r.fs, r.path, env)],
                             r.fs)
    /\ UNCHANGED <<raw, res, last, rn, batch>>

\* readFileByPath(await resolvePath(userId, path))
CallReadFileByPath ==
    /\ TreeIdle
    /\ \E u \in Writers, p \in TreePaths :
         LET r == resolvePath(fs, u, p)
             c == readFileByPath(r.fs, r.path)
         IN  /\ r.ok
             /\ fs' = r.fs
             /\ call' = Call("readFileByPath", u, p, r.path, <<>>, SoundEnv, c.ok,
                             [NoOut EXCEPT !.content = c.content], r.fs)
    /\ UNCHANGED <<raw, res, last, rn, batch>>

\* calculateUserDiskUsage(userId), on a storage where the stat of at most one
\* file throws.
CallDiskUsage ==
    /\ TreeIdle
    /\ \E u \in Writers, order \in ReadDirOrders :
         LET f2 == ensureUserDirectory(fs, u) IN
         \E failing \in {{}} \cup {{q} : q \in FilesUnder(f2, u)} :
             LET env == Env(0, failing, order) IN
             /\ fs' = f2
             /\ call' = Call("calculateUserDiskUsage", u, <<>>, TenantRoot(u), <<>>,
                             env, TRUE,
                             [NoOut EXCEPT !.size =
                                  calculateDirectorySizeOn(f2, TenantRoot(u), env)],
                             fs)
    /\ UNCHANGED <<raw, res, last, rn, batch>>

\* A second call of the function that was just called.
Then(fn, ok, out) == [fn |-> fn, ok |-> ok, out |-> out, mid |-> fs]

\* createDirectory(path) once more on the same path.
ThenCreateDirectory ==
    /\ call.fn = "createDirectory"
    /\ call.then = NoThen
    /\ LET m == createDirectory(fs, call.path) IN
       /\ fs' = m.fs
       /\ call' = [call EXCEPT !.then = Then("createDirectory", m.ok, NoOut)]
    /\ UNCHANGED <<raw, res, last, rn, batch>>

\* readFileByPath(path) of the path just written.
ThenReadFileByPath ==
    /\ call.fn = "writeFileByPath"
    /\ call.then = NoThen
    /\ LET c == readFileByPath(fs, call.path) IN
       call' = [call EXCEPT !.then =
                    Then("readFileByPath", c.ok, [NoOut EXCEPT !.content = c.content])]
    /\ UNCHANGED <<fs, raw, res, last, rn, batch>>

\* listDirectory(dirname(path)) of the path just deleted.
ThenListParent ==
    /\ call.fn = "deleteFileOrDirectoryByPath"
    /\ call.then = NoThen
    /\ \E ds \in DirStatSizes :
         call' = [call EXCEPT !.then =
                      Then("listDirectory", TRUE,
                           [NoOut EXCEPT !.entries =
                                listDirectory(fs, Parent(call.path),
                                              Env(ds, {}, SoundEnv.order))])]
    /\ UNCHANGED <<fs, raw, res, last, rn, batch>>

\* POST /api/users/:userId/files/create, the content a short text
TreeFileCreate ==
    /\ TreeIdle
    /\ \E u \in Writers, p \in TreePaths, t \in TreeTexts :
        LET o == handleFileCreate(fs, u, p, StringData(t)) IN
        /\ fs' = o.fs
        /\ last' = Response("create", u, o, p, <<>>, StringData(t), fs)
        /\ UNCHANGED <<raw, res, rn, call, batch>>

\* POST /api/users/:userId/upload, the file a short one named a
TreeFileUpload ==
    /\ TreeIdle
    /\ \E u \in Writers, pi \in {<<"d">>, <<"d", "/", "d">>}, n \in FileNames, t \in TreeTexts :
        LET o == handleFileUpload(fs, u, pi, n, StringData(t)) IN
        /\ fs' = o.fs
        /\ last' = Response("upload", u, o, UploadTargetPath(pi, n), <<>>,
                             StringData(t), fs)
        /\ UNCHANGED <<raw, res, rn, call, batch>>

\* GET /api/users/:userId/content/*
TreeFileContent ==
    /\ TreeIdle
    /\ \E u \in Writers, p \in TreePaths :
        LET o == handleUserFileContentPath(fs, u, p) IN
        /\ fs' = o.fs
        /\ last' = ReadResponse("content", u, o, p, fs)
        /\ UNCHANGED <<raw, res, rn, call, batch>>

\* The caller takes the result.
CallReturn ==
    /\ call # NoCall
    /\ call' = NoCall
    /\ UNCHANGED <<fs, raw, res, last, rn, batch>>

NextTree ==
    \/ CallResolvePath
    \/ CallCreateDirectory
    \/ CallWriteFileByPath
    \/ CallDeleteByPath
    \/ CallListDirectory
    \/ CallReadFileByPath
    \/ CallDiskUsage
    \/ ThenCreateDirectory
    \/ ThenReadFileByPath
    \/ ThenListParent
    \/ CallReturn
    \/ TreeFileCreate
    \/ TreeFileUpload
    \/ TreeFileContent
    \/ ReturnResponse

SpecTree == Init /\ [][NextTree]_vars

-----------------------------------------------------------------------------
(* File-create requests of one tenant handled concurrently: each handler   *)
(* runs up to its quota check, awaits, and later resolves the path and     *)
(* writes the file.                                                        *)

\* Raw sub-paths of the concurrent writes: a, x and d/a.
BatchPaths == {<<"a">>, <<"x">>, <<"d", "/", "a">>}

\* Their bodies: a byte more than half the ceiling, half of it, one byte.
BatchContents == {Content("p", Half + 1), Content("q", Half), Content("p", 1)}

\* handleFileCreate up to its quota check: the used bytes are read from the
\* disk as it is now; a request that passes joins the writes in flight.
BatchAdmit ==
    /\ last = NoLast
    /\ Cardinality(batch) < MaxBatch
    /\ \E u \in Writers, p \in BatchPaths, c \in BatchContents :
         LET usage == calculateUserDiskUsage(fs, u) IN
         /\ fs' = usage.fs
         /\ batch' = IF QuotaExceeded(usage.used, byteLength(c)) THEN batch
                     ELSE batch \cup {[userId |-> u, sub |-> p, data |-> c,
                                       snapshot |-> usage.used, pc |-> "admitted"]}
    /\ UNCHANGED <<raw, res, last, rn, call>>

\* The rest of handleFileCreate for a request in flight: resolvePath and
\* writeFileByPath.
BatchLand ==
    /\ last = NoLast
    /\ \E r \in batch :
         /\ r.pc = "admitted"
         /\ LET o == ResolveAndWrite(fs, r.userId, r.sub, r.data, 201) IN
            /\ fs' = o.fs
            /\ batch' = (batch \ {r}) \cup {[r EXCEPT !.pc = "landed"]}
    /\ UNCHANGED <<raw, res, last, rn, call>>

\* Every write in flight has landed and been answered.
BatchDone ==
    /\ last = NoLast
    /\ batch # {}
    /\ \A r \in batch : r.pc = "landed"
    /\ batch' = {}
    /\ UNCHANGED <<fs, raw, res, last, rn, call>>

\* A delete request while no write is in flight.
BatchDelete ==
    /\ last = NoLast
    /\ batch = {}
    /\ \E u \in Writers, p \in BatchPaths :
         fs' = handleDeleteFileOrDirectory(fs, u, p).fs
    /\ UNCHANGED <<raw, res, last, rn, call, batch>>

\* Directory fields of the uploads made one at a time.
BatchPathInputs == {<<>>, <<"d">>}

\* Sub-paths of the directories created: x, d/a and d/d.
BatchDirPaths == {<<"x">>, <<"d", "/", "a">>, <<"d", "/", "d">>}

\* No write is in flight and no request is being answered.
BatchIdle == batch = {} /\ last = NoLast

\* An upload handled from its quota check to its response with no other
\* request in between.
BatchUpload ==
    /\ BatchIdle
    /\ \E u \in Writers, pi \in BatchPathInputs, n \in FileNames, c \in BatchContents :
        LET o == handleFileUpload(fs, u, pi, n, c) IN
        /\ fs' = o.fs
        /\ last' = Response("upload", u, o, UploadTargetPath(pi, n), <<>>, c, fs)
    /\ UNCHANGED <<raw, res, rn, call, batch>>

\* A file create handled the same way.
BatchCreate ==
    /\ BatchIdle
    /\ \E u \in Writers, p \in BatchPaths, c \in BatchContents :
        LET o == handleFileCreate(fs, u, p, c) IN
        /\ fs' = o.fs
        /\ last' = Response("create", u, o, p, <<>>, c, fs)
    /\ UNCHANGED <<raw, res, rn, call, batch>>

\* A content update handled the same way.
BatchUpdate ==
    /\ BatchIdle
    /\ \E u \in Writers, p \in BatchPaths, c \in BatchContents :
        LET o == handleUserFileContentPathUpdate(fs, u, p, c) IN
        /\ fs' = o.fs
        /\ last' = Response("update", u, o, p, <<>>, c, fs)
    /\ UNCHANGED <<raw, res, rn, call, batch>>

\* A directory create handled the same way.
BatchCreateDirectory ==
    /\ BatchIdle
    /\ \E u \in Writers, p \in BatchDirPaths :
        LET o == handleCreateDirectory(fs, u, p) IN
        /\ fs' = o.fs
        /\ last' = Response("mkdir", u, o, p, <<>>, NoData, fs)
    /\ UNCHANGED <<raw, res, rn, call, batch>>

NextBatch ==
    \/ BatchAdmit
    \/ BatchLand
    \/ BatchDone
    \/ BatchDelete
    \/ BatchUpload
    \/ BatchCreate
    \/ BatchUpdate
    \/ BatchCreateDirectory
    \/ ReturnResponse

SpecBatch == Init /\ [][NextBatch]_vars

-----------------------------------------------------------------------------
(* Observations used by the properties                                     *)

RECURSIVE SumLen(_, _)
SumLen(f, S) ==
    IF S = {} THEN 0
    ELSE LET q == CHOOSE x \in S : TRUE IN f[q].data.len + SumLen(f, S \ {q})

\* The bytes a tenant holds on disk.
UsedBytes(f, userId) == SumLen(f, FilesUnder(f, userId))

\* Everything strictly below a tenant's root.
Subtree(f, userId) ==
    [q \in {x \in DOMAIN f : IsPrefix(TenantRoot(userId), x) /\ x # TenantRoot(userId)}
        |-> f[q]]

Succeeded == last.status \in {200, 201}

GrowingOps == {"upload", "create", "update"}

MutatingOps == {"upload", "create", "update", "mkdir", "rename", "delete"}

\* Where the last request's sub-path resolves on the disk it found.
LastResolved == resolvePath(last.before, last.userId, last.sub)

LastResolved2 == resolvePath(last.before, last.userId, last.sub2)

\* The last request is a well-formed write of file content to a location
\* that can hold a file: the path resolves to something other than a
\* directory, below a chain of directories that exist or can be created.
WritableTarget ==
    /\ last.op \in GrowingOps
    /\ last.sub # <<>>
    /\ byteLength(last.data) > 0
    /\ byteLength(last.data) <= MAX_SIZE
    /\ LastResolved.ok
    /\ ~IsDir(last.before, LastResolved.path)
    /\ mkdirRecursive(last.before, Parent(LastResolved.path)).ok

\* Bytes the last write adds to (or, negative, removes from) the tenant.
SizeDelta == byteLength(last.data) - OriginalSize(last.before, LastResolved.path)

UsedBefore == UsedBytes(last.before, last.userId)

-----------------------------------------------------------------------------
(* Properties                                                              *)

\* C1 (as amended): resolvePath either throws -- the invalid-path error, or
\* decodeURIComponent's URIError when the raw path holds a malformed percent
\* escape -- or returns a path that is the tenant root or a descendant of it;
\* a raw path that decodes is never answered by any error but invalid-path.
C1_ResolveInsideOrThrows ==
    res # NoRes =>
        /\ res.ok => IsPrefix(TenantRoot(res.userId), res.path)
        /\ ~res.ok => res.err \in {"InvalidPath", "URIError"}
        /\ (~res.ok /\ decodeURIComponent(raw).ok) => res.err = "InvalidPath"

\* C1 as stated: resolvePath fails with the invalid-path error or returns a
\* path inside the tenant root.
C1_InvalidPathOrInside ==
    res # NoRes =>
        \/ res.ok /\ IsPrefix(TenantRoot(res.userId), res.path)
        \/ ~res.ok /\ res.err = "InvalidPath"

\* A raw path with an encoded separator and a ".." segment has been resolved
\* to a path, and one has been refused as invalid.
C1_Witness ==
    /\ res # NoRes
    /\ res.ok
    /\ \E i \in 1..Len(raw) : raw[i] \in {"%2f", "%5c", "%2e"}
    /\ \E i \in 1..Len(Split(NormalizeSubPath(decodeURIComponent(raw).chars))) :
         Split(NormalizeSubPath(decodeURIComponent(raw).chars))[i] = DotDot

\* C11: for every tenant, resolvePath of the empty sub-path and of "/" both
\* succeed and both return the tenant root itself.
C11_EmptyAndSlashResolveToRoot ==
    (res # NoRes /\ raw \in {<<>>, <<"/">>})
        => res.ok /\ res.path = TenantRoot(res.userId)

\* resolvePath of "/" has returned the tenant root, which exists.
C11_Witness ==
    /\ res # NoRes
    /\ raw = <<"/">>
    /\ res.ok
    /\ res.path = TenantRoot(res.userId)
    /\ IsDir(fs, res.path)

\* C12: when resolvePath returns a path the tenant root is a directory on
\* disk, and whether it returns or throws, every file and directory other
\* than the tenant root is after the call exactly as it was before: nothing
\* is created below the root, nothing is removed or changed anywhere.
C12_ResolveCreatesOnlyRoot ==
    call.fn = "resolvePath" =>
        /\ call.ok => IsDir(fs, TenantRoot(call.userId))
        /\ \A q \in (DOMAIN fs \cup DOMAIN call.before) \ {TenantRoot(call.userId)} :
               q \in DOMAIN fs /\ q \in DOMAIN call.before /\ fs[q] = call.before[q]
        /\ Exists(call.before, TenantRoot(call.userId))
               => fs[TenantRoot(call.userId)] = call.before[TenantRoot(call.userId)]

\* resolvePath of d/d/a has returned a path to a tenant whose root was
\* missing, on a disk where another tenant holds files; the root is there
\* and d is not.
C12_Witness ==
    /\ call.fn = "resolvePath"
    /\ call.ok
    /\ call.sub = <<"d", "/", "d", "/", "a">>
    /\ ~Exists(call.before, TenantRoot(call.userId))
    /\ \E u \in Tenants : u # call.userId /\ FilesUnder(call.before, u) # {}
    /\ IsDir(fs, TenantRoot(call.userId))
    /\ ~Exists(fs, Parent(Parent(call.path)))

\* C13: deleteFileOrDirectoryByPath on an existing directory returns success,
\* removes the directory and everything below it and nothing else, and a
\* listDirectory of the parent made next holds no entry of its name.
C13_DeleteRemovesSubtree ==
    (call.fn = "deleteFileOrDirectoryByPath" /\ IsDir(call.before, call.path)) =>
        /\ call.ok
        /\ \A q \in DOMAIN fs : ~IsPrefix(call.path, q)
        /\ \A q \in DOMAIN call.before :
               ~IsPrefix(call.path, q) => Exists(fs, q) /\ fs[q] = call.before[q]
        /\ call.then.fn = "listDirectory" =>
               \A e \in call.then.out.entries : e.name # call.path[Len(call.path)]

\* Directory d, which held a file, a subdirectory and a file in that
\* subdirectory, has been deleted, and the listing of its parent that
\* followed shows the entry that remains.
C13_Witness ==
    /\ call.fn = "deleteFileOrDirectoryByPath"
    /\ call.ok
    /\ call.sub = <<"d">>
    /\ IsFile(call.before, call.path \o <<Seg("a")>>)
    /\ IsDir(call.before, call.path \o <<Seg("d")>>)
    /\ IsFile(call.before, call.path \o <<Seg("d"), Seg("a")>>)
    /\ call.then.fn = "listDirectory"
    /\ call.then.out.entries # {}
    /\ ~Exists(fs, call.path)

\* The disk as the first of two calls left it.
AfterFirstCall == IF call.then = NoThen THEN fs ELSE call.then.mid

\* C14: createDirectory(p) succeeds unless a segment of p is a file; when it
\* succeeds every segment of p is a directory and nothing else on disk has
\* changed; and a second call right after the first returns what the first
\* returned and leaves the disk as the first call left it.
C14_CreateDirectoryIdempotent ==
    call.fn = "createDirectory" =>
        /\ call.ok <=> ~\E q \in Prefixes(call.path) : IsFile(call.before, q)
        /\ call.ok =>
              /\ \A q \in Prefixes(call.path) : IsDir(AfterFirstCall, q)
              /\ DOMAIN AfterFirstCall = DOMAIN call.before \cup Prefixes(call.path)
              /\ \A q \in DOMAIN call.before : AfterFirstCall[q] = call.before[q]
        /\ call.then.fn = "createDirectory" =>
              /\ call.then.ok = call.ok
              /\ fs = call.then.mid

\* createDirectory of d/d/a, of which neither d nor d/d existed, has
\* succeeded twice in a row.
C14_Witness ==
    /\ call.fn = "createDirectory"
    /\ call.sub = <<"d", "/", "d", "/", "a">>
    /\ ~Exists(call.before, Parent(Parent(call.path)))
    /\ call.ok
    /\ call.then.fn = "createDirectory"
    /\ call.then.ok
    /\ IsDir(fs, call.path)

RECURSIVE WellFormed(_)
\* A text without a surrogate that lacks its partner.
WellFormed(text) ==
    IF text = <<>> THEN TRUE
    ELSE IF Head(text) = "H"
         THEN Len(text) >= 2 /\ text[2] = "L" /\ WellFormed(SubSeq(text, 3, Len(text)))
    ELSE Head(text) # "L" /\ WellFormed(Tail(text))

\* C15 (as amended): a successful writeFileByPath(p, content) of a text
\* without unpaired surrogates to a path whose extension is not one of the
\* image extensions, followed by readFileByPath(p), returns exactly content.
C15_RoundTripTextPath ==
    (call.fn = "writeFileByPath" /\ call.ok /\ call.then.fn = "readFileByPath"
        /\ Ext(PathString(call.path)) \notin ImageExts /\ WellFormed(call.text))
        => call.then.ok /\ call.then.out.content = call.text

\* C15 as stated: for every resolved path and every text, a successful
\* write followed by a read returns exactly the text.
C15_RoundTripEveryPath ==
    (call.fn = "writeFileByPath" /\ call.ok /\ call.then.fn = "readFileByPath")
        => call.then.ok /\ call.then.out.content = call.text

\* A surrogate pair has been written to d/d/a, whose parents were missing,
\* over nothing, and read back.
C15_Witness ==
    /\ call.fn = "writeFileByPath"
    /\ call.ok
    /\ call.sub = <<"d", "/", "d", "/", "a">>
    /\ call.text = <<"H", "L">>
    /\ ~Exists(call.before, Parent(call.path))
    /\ call.then.fn = "readFileByPath"
    /\ call.then.ok
    /\ call.then.out.content = <<"H", "L">>

\* C16: the used bytes a tenant is told are the sum of the sizes of the
\* regular files that are under its root, at any depth, at the time of the
\* query, whatever requests came before.
C16_UsedBytesIsSumOfFiles ==
    last.op = "usage" => last.used = UsedBytes(fs, last.userId)

\* The tenant has been told its used bytes while holding a file in its root
\* and a larger one in a directory.
C16_Witness ==
    /\ last.op = "usage"
    /\ IsFile(fs, TenantRoot(last.userId) \o <<Seg("a")>>)
    /\ IsFile(fs, TenantRoot(last.userId) \o <<Seg("d"), Seg("a")>>)
    /\ last.used = UsedBytes(fs, last.userId)
    /\ last.used > Half + 1

\* The total size of the writes in flight.
BatchTotal == SumLen([r \in batch |-> [data |-> r.data]], batch)

\* C17: once the writes that were in flight together have all landed, the
\* tenant's used bytes exceed the ceiling by at most their total size.
C17_OvershootWithinBatch ==
    (batch # {} /\ \A r \in batch : r.pc = "landed")
        => \A u \in Writers : UsedBytes(fs, u) <= MAX_USER_STORAGE + BatchTotal

\* Two writes were admitted on the same used-bytes snapshot, taken before
\* either landed; both have landed and the tenant is above the ceiling.
C17_Witness ==
    /\ Cardinality(batch) = 2
    /\ \A r \in batch : r.pc = "landed"
    /\ \A r, t \in batch : r.snapshot = t.snapshot
    /\ \E u \in Writers :
          /\ \A r \in batch : r.snapshot + BatchTotal = UsedBytes(fs, u)
          /\ UsedBytes(fs, u) > MAX_USER_STORAGE

\* C18: writeFileByPath to a path whose parent is missing, below a nearest
\* existing ancestor that is a directory, succeeds, creates every missing
\* parent and leaves the content at the path; and an upload or file-create
\* request to such a path succeeds and the file is there afterwards.
C18_WriteCreatesParents ==
    /\ (call.fn = "writeFileByPath" /\ ~Exists(call.before, Parent(call.path))
           /\ mkdirRecursive(call.before, Parent(call.path)).ok)
          => /\ call.ok
             /\ \A q \in Prefixes(Parent(call.path)) : IsDir(fs, q)
             /\ IsFile(fs, call.path)
             /\ fs[call.path].data = StringData(call.text)
    /\ (last.op \in {"upload", "create"} /\ WritableTarget
           /\ ~Exists(last.before, Parent(LastResolved.path)))
          => /\ Succeeded
             /\ \A q \in Prefixes(Parent(LastResolved.path)) : IsDir(fs, q)
             /\ IsFile(fs, LastResolved.path)
             /\ fs[LastResolved.path].data = last.data

\* An upload to d/d/a has succeeded on a disk that had neither d nor d/d.
C18_Witness ==
    /\ last.op = "upload"
    /\ last.sub = <<"d", "/", "d", "/", "a">>
    /\ ~Exists(last.before, Parent(Parent(LastResolved.path)))
    /\ Succeeded
    /\ IsDir(fs, Parent(LastResolved.path))
    /\ IsFile(fs, LastResolved.path)

\* The same by writeFileByPath called on the resolved path.
C18_WitnessCall ==
    /\ call.fn = "writeFileByPath"
    /\ call.sub = <<"d", "/", "d", "/", "a">>
    /\ ~Exists(call.before, Parent(Parent(call.path)))
    /\ call.ok
    /\ IsFile(fs, call.path)

\* C19 as stated: every entry of a listing that is a directory carries size
\* 0; only entries that are files carry another size.
C19_DirectoryEntriesSizeZero ==
    call.fn = "listDirectory" =>
        \A e \in call.out.entries : e.isDirectory => e.size = 0

\* C20 as stated: the size walk skips an entry whose stat throws and goes on:
\* it returns the sum of the sizes of all files below the directory whose
\* stat does not throw.
C20_SizeWalkSkipsAndContinues ==
    call.fn = "calculateUserDiskUsage" =>
        call.out.size = SumLen(fs, FilesUnder(fs, call.userId) \ call.env.failing)

\* C2: with one request handled at a time, a successful mutating request that
\* found the tenant at or below the ceiling leaves it at or below the ceiling.
C2_SuccessKeepsCeiling ==
    (last.op \in MutatingOps /\ Succeeded /\ UsedBefore <= MAX_USER_STORAGE)
        => UsedBytes(fs, last.userId) <= MAX_USER_STORAGE

\* A successful write has filled the tenant exactly to the ceiling.
C2_Witness ==
    /\ last.op \in GrowingOps
    /\ Succeeded
    /\ UsedBytes(fs, last.userId) = MAX_USER_STORAGE
    /\ UsedBefore < MAX_USER_STORAGE

\* C3: a request rejected for quota leaves everything below the tenant root,
\* and the tenant's used bytes, as it found them.
C3_QuotaRejectionWritesNothing ==
    (last.op \in GrowingOps /\ last.reason = "quota")
        => /\ Subtree(fs, last.userId) = Subtree(last.before, last.userId)
           /\ UsedBytes(fs, last.userId) = UsedBefore

\* A file-create has been rejected for quota while the tenant held files.
C3_Witness ==
    /\ last.op = "create"
    /\ last.reason = "quota"
    /\ FilesUnder(last.before, last.userId) # {}

\* C4 as stated: a size-increasing write of exactly C - U additional bytes is
\* accepted and brings the tenant to exactly C; one of C - U + 1 additional
\* bytes is rejected for quota.
C4_QuotaBoundary ==
    (WritableTarget /\ SizeDelta > 0) =>
        /\ SizeDelta = MAX_USER_STORAGE - UsedBefore
             => Succeeded /\ UsedBytes(fs, last.userId) = MAX_USER_STORAGE
        /\ SizeDelta = MAX_USER_STORAGE - UsedBefore + 1
             => last.reason = "quota"

\* C5 as stated: every overwrite of an existing file (by upload, file-create
\* or content update) is rejected for quota exactly when used + (newSize -
\* oldSize) exceeds the ceiling.
C5_OverwriteChecksDelta ==
    (WritableTarget /\ IsFile(last.before, LastResolved.path)) =>
        (last.reason = "quota" <=> UsedBefore + SizeDelta > MAX_USER_STORAGE)

\* C6: a content update whose new content has the byte size of the existing
\* file is never rejected for quota, and succeeds.
C6_SameSizeUpdateNeverQuota ==
    (last.op = "update" /\ WritableTarget /\ IsFile(last.before, LastResolved.path)
        /\ SizeDelta = 0)
        => last.reason # "quota" /\ Succeeded

\* A same-size update with other content has been made by a tenant that is
\* above the ceiling (a rename whose removal failed left it two copies).
C6_Witness ==
    /\ last.op = "update"
    /\ WritableTarget
    /\ IsFile(last.before, LastResolved.path)
    /\ SizeDelta = 0
    /\ last.before[LastResolved.path].data # last.data
    /\ UsedBefore > MAX_USER_STORAGE
    /\ Succeeded

\* The same, by a tenant exactly at the ceiling.
C6_AtCeiling ==
    /\ last.op = "update"
    /\ IsFile(last.before, LastResolved.path)
    /\ SizeDelta = 0
    /\ UsedBefore = MAX_USER_STORAGE
    /\ Succeeded

\* C7: a rename whose destination exists fails and leaves the disk, and so
\* the nodes at the source and at the destination, as it found them.
C7_RenameNeverClobbers ==
    (last.op = "rename" /\ last.sub # <<>> /\ last.sub2 # <<>>
        /\ LastResolved.ok /\ LastResolved2.ok
        /\ Exists(last.before, LastResolved2.path))
        => /\ ~Succeeded
           /\ NodeAt(fs, LastResolved.path) = NodeAt(last.before, LastResolved.path)
           /\ NodeAt(fs, LastResolved2.path) = NodeAt(last.before, LastResolved2.path)
           /\ fs = last.before

\* A rename of an existing file onto another existing file has been refused.
C7_Witness ==
    /\ last.op = "rename"
    /\ last.sub # <<>> /\ last.sub2 # <<>>
    /\ LastResolved.ok /\ LastResolved2.ok
    /\ IsFile(last.before, LastResolved.path)
    /\ IsFile(last.before, LastResolved2.path)
    /\ LastResolved.path # LastResolved2.path
    /\ last.reason = "rename_failed"

\* C8 as stated: a rename of an existing node, file or directory, to a
\* destination that does not exist and whose parent exists or can be created
\* succeeds, and afterwards the node with its descendants is at the
\* destination and nothing is at the source.
C8_RenameMovesAnyNode ==
    (last.op = "rename" /\ last.sub # <<>> /\ last.sub2 # <<>>
        /\ LastResolved.ok /\ LastResolved2.ok
        /\ Exists(last.before, LastResolved.path)
        /\ ~Exists(last.before, LastResolved2.path)
        /\ ~IsPrefix(LastResolved.path, LastResolved2.path)
        /\ mkdirRecursive(last.before, Parent(LastResolved2.path)).ok)
        => /\ Succeeded
           /\ NodeAt(fs, LastResolved2.path) = NodeAt(last.before, LastResolved.path)
           /\ ~Exists(fs, LastResolved.path)

\* Every node of tree a is a node of tree b.
Within(a, b) == \A r \in DOMAIN a : r \in DOMAIN b /\ b[r] = a[r]

\* C9: in every step of a rename, and after a failure of any step, what was
\* at the source when the rename began is whole at the source or whole at
\* the destination.
C9_SourceOrDestinationHoldsContent ==
    rn.pc \in {"checked", "copied", "done", "failed"} =>
        \/ Within(rn.orig, NodeAt(fs, rn.old))
        \/ Within(rn.orig, NodeAt(fs, rn.new))

\* A rename of a file has failed on a write that left a truncated
\* destination.
C9_Witness ==
    /\ rn.pc = "failed"
    /\ rn.orig # <<>>
    /\ IsFile(fs, rn.old)
    /\ IsFile(fs, rn.new)
    /\ fs[rn.new].data = Truncated

\* C10 as stated: a tenant root that exists before a request exists after it.
C10_TenantRootNeverRemoved ==
    \A u \in Tenants :
        Exists(last.before, TenantRoot(u)) => Exists(fs, TenantRoot(u))

\* C21 as stated: a request for the text content of a file whose extension
\* is an image type is answered with status 400 and without the content.
C21_ImageTextReadIs400 ==
    (last.op = "content" /\ last.sub # <<>> /\ LastResolved.ok
        /\ IsFile(last.before, LastResolved.path)
        /\ Ext(PathString(LastResolved.path)) \in ImageExts)
        => last.status = 400 /\ last.body = <<>>

\* C22 as stated: a well-formed upload, file create or content update whose
\* path leaves the tenant's directory is rejected as an invalid path, whatever
\* the tenant's usage is.
C22_EscapingPathRejectedFirst ==
    (last.op \in GrowingOps /\ last.sub # <<>>
        /\ byteLength(last.data) > 0 /\ byteLength(last.data) <= MAX_SIZE
        /\ ~LastResolved.ok /\ LastResolved.err = "InvalidPath")
        => last.reason = "InvalidPath"

\* C23: a well-formed upload, file create or content update that finds the
\* tenant above the ceiling never leaves the tenant with more bytes than it
\* found; if it would add bytes it is refused and the disk is left as it
\* was, and a write to a location that can hold a file is refused for the
\* quota.
C23_NoGrowthAboveCeiling ==
    (last.op \in GrowingOps /\ UsedBefore > MAX_USER_STORAGE)
        => /\ UsedBytes(fs, last.userId) <= UsedBefore
           /\ (byteLength(last.data) > 0 /\ SizeDelta > 0)
                => ~Succeeded /\ Subtree(fs, last.userId) = Subtree(last.before, last.userId)
           /\ (WritableTarget /\ SizeDelta > 0) => last.reason = "quota"

\* Concurrent writes left the tenant above the ceiling; the next update that
\* would make a file larger was refused for the quota.
C23_Witness ==
    /\ last.op = "update"
    /\ UsedBefore > MAX_USER_STORAGE
    /\ WritableTarget
    /\ IsFile(last.before, LastResolved.path)
    /\ SizeDelta > 0
    /\ last.reason = "quota"

\* C26: a directory-create request is never refused for the quota and
\* leaves the tenant's used bytes, on disk and as the usage query reports
\* them, as they were; when the chain of directories can be made it succeeds
\* and the directory is there, whatever the tenant's usage is.
C26_DirectoriesNotCharged ==
    last.op = "mkdir"
        => /\ last.reason # "quota"
           /\ UsedBytes(fs, last.userId) = UsedBefore
           /\ calculateUserDiskUsage(fs, last.userId).used
                = calculateUserDiskUsage(last.before, last.userId).used
           /\ (last.sub # <<>> /\ LastResolved.ok
                 /\ mkdirRecursive(last.before, LastResolved.path).ok)
                => Succeeded /\ IsDir(fs, LastResolved.path)

\* The tenant is above the ceiling; a directory and its missing parent were
\* created.
C26_Witness ==
    /\ last.op = "mkdir"
    /\ UsedBefore > MAX_USER_STORAGE
    /\ Succeeded
    /\ ~Exists(last.before, Parent(LastResolved.path))
    /\ IsDir(fs, LastResolved.path)

\* C25 as stated: a content update of an existing file with content no
\* larger than the file holds, empty content included, succeeds and leaves
\* the new content in the file.
C25_ShrinkingUpdateSucceeds ==
    (last.op = "update" /\ last.sub # <<>> /\ LastResolved.ok
        /\ IsFile(last.before, LastResolved.path)
        /\ byteLength(last.data) <= OriginalSize(last.before, LastResolved.path))
        => /\ Succeeded
           /\ IsFile(fs, LastResolved.path)
           /\ fs[LastResolved.path].data = last.data

\* C27 as stated: for every raw path that decodes and whose normalized
\* path, joined to the tenant's directory, is the tenant root or a descendant
\* of it, resolvePath succeeds and returns that path.
C27_RejectsOnlyEscapingPaths ==
    (res # NoRes /\ decodeURIComponent(raw).ok
        /\ IsPrefix(TenantRoot(res.userId),
                    Resolve(join(UserDir(res.userId),
                                 NormalizeSubPath(decodeURIComponent(raw).chars)))))
        => /\ res.ok
           /\ res.path = Resolve(join(UserDir(res.userId),
                                      NormalizeSubPath(decodeURIComponent(raw).chars)))

\* The path that the request answered while the rename was between its
\* check and its copy has created: the file of a create, the destination of
\* a rename.
RacedPath ==
    IF ~Succeeded THEN <<>>
    ELSE IF last.op = "create" THEN last.target
    ELSE IF last.op = "rename" THEN LastResolved2.path
    ELSE <<>>

\* C24: when another request has created the rename's destination after the
\* rename's check, and the rename goes on to return success, the destination
\* holds the content the source had when that request was answered -- what
\* the other request put at the destination has been overwritten -- and the
\* source is gone.
C24_RenameOverwritesRacedDestination ==
    (rn.pc = "done" /\ last.op \in {"create", "rename"} /\ RacedPath = rn.new)
        => /\ IsFile(last.before, rn.old)
           /\ IsFile(fs, rn.new)
           /\ fs[rn.new].data = last.before[rn.old].data
           /\ ~Exists(fs, rn.old)

\* A file create put other content at the destination after the check; the
\* rename has returned success and that content is gone.
C24_Witness ==
    /\ rn.pc = "done"
    /\ last.op = "create"
    /\ RacedPath = rn.new
    /\ ~Exists(last.before, rn.new)
    /\ last.data # last.before[rn.old].data
    /\ fs[rn.new].data = last.before[rn.old].data

\* A second rename moved another file to the destination after the check;
\* the first rename has returned success and that file's content is gone.
C24_WitnessSecondRename ==
    /\ rn.pc = "done"
    /\ last.op = "rename"
    /\ RacedPath = rn.new
    /\ ~Exists(last.before, rn.new)
    /\ last.before[last.target].data # last.before[rn.old].data
    /\ fs[rn.new].data = last.before[rn.old].data

\* C28 as stated: when renameFileOrDirectory returns failure the disk is
\* exactly as it was when it was called, after the handler resolved both
\* paths.
C28_FailedRenameChangesNothing ==
    (last.op = "rename" /\ last.reason = "rename_failed")
        => fs = LastResolved.fs

\* Everything at or below a tenant's root.
Tree(f, userId) ==
    [q \in {x \in DOMAIN f : IsPrefix(TenantRoot(userId), x)} |-> f[q]]

\* Every location the last request created, changed or removed lies at or
\* below the root of the tenant given.
ChangedOnlyUnder(userId) ==
    \A q \in DOMAIN fs \cup DOMAIN last.before :
        (q \in DOMAIN fs /\ q \in DOMAIN last.before /\ fs[q] = last.before[q])
        \/ IsPrefix(TenantRoot(userId), q)

\* C29 as stated: a mutating request without a live session is answered
\* 401; one with the session of another user than the URL names is answered
\* 403 or changes nothing outside its own root; and the tree of every tenant
\* but the session's is left as it was.
C29_MutationsNeedOwnSession ==
    last.op \in MutatingOps =>
        /\ last.session = "none" => last.status = 401
        /\ (last.session # "none" /\ last.session # last.userId)
             => last.status = 403 \/ ChangedOnlyUnder(last.session)
        /\ \A t \in Tenants :
             last.session # t => Tree(fs, t) = Tree(last.before, t)

\* C29 (as amended): as stated, except that a content update whose URL holds
\* no file path is answered 400 before the session is looked at; and a
\* request that is answered 401, 403 or that 400 leaves the whole disk as
\* it was.
C29_MutationsNeedOwnSessionOrPath ==
    last.op \in MutatingOps =>
        /\ last.session = "none"
             => /\ \/ last.status = 401
                   \/ last.op = "update" /\ last.sub = <<>> /\ last.status = 400
                /\ fs = last.before
        /\ (last.session # "none" /\ last.session # last.userId)
             => \/ last.status = 403 /\ fs = last.before
                \/ last.op = "update" /\ last.sub = <<>> /\ last.status = 400
                      /\ fs = last.before
                \/ last.op = "delete" /\ ChangedOnlyUnder(last.session)
        /\ \A t \in Tenants :
             last.session # t => Tree(fs, t) = Tree(last.before, t)

\* Tenant u1 holds a file; a delete request sent to u1's URL with the
\* session of u2 has removed a file of u2's and nothing of u1's.
C29_Witness ==
    /\ last.op = "delete"
    /\ last.userId = "u1"
    /\ last.session = "u2"
    /\ Succeeded
    /\ FilesUnder(last.before, "u1") # {}
    /\ FilesUnder(fs, "u2") # FilesUnder(last.before, "u2")
    /\ Tree(fs, "u1") = Tree(last.before, "u1")

\* C30 as stated: a response that carries the content or the listing of a
\* location at or below a tenant's root answers a request with a live
\* session of that tenant.
C30_ReadsNeedOwnSession ==
    (last.op \in {"list", "content", "direct"} /\ last.status = 200)
        => \A t \in Tenants : IsPrefix(TenantRoot(t), last.target) => last.session = t

====
